---- MODULE Spec2Model ----
(***************************************************************************)
(* Format-based chain detection of tx-whisperer (lib/tx.ts).               *)
(*                                                                         *)
(* Strings are sequences of one-character strings.  The functions of       *)
(* lib/tx.ts are operators; the specification Spec draws a raw input from  *)
(* a bounded family of inputs and applies the functions to it one call     *)
(* after the other, recording every result in the state.                   *)
(***************************************************************************)
EXTENDS Naturals, Integers, Sequences, FiniteSets, TLC

VARIABLES
  raw,         \* the raw input string
  pc,          \* which calls have been made
  normalized,  \* result of normalizeTx(raw)
  chain,       \* result of detectChain(raw)
  inputType,   \* result of detectInputType(raw)
  extracted,   \* result of extractFromUrl(raw)
  addrChain,   \* result of detectChainFromAddress(raw)
  table,       \* the blacklist entries (data/blacklist.json)
  result,      \* result of checkContamination(raw)
  lsHistory,   \* localStorage item 'tx-whisperer-history' (parsed)
  lsVersion,   \* localStorage item 'tx-whisperer-history-version'
  fresh,       \* how many never-used values have been added to history
  lastCall,    \* the last history call: its name, its argument, the
               \* items stored before it and what it returned
  v1Array,     \* the array the v1 code had left in storage
  body,        \* the body of the request sent to POST /api/contamination
  response,    \* the response of the route
  page,        \* the state of the Home component, one field per useState
  inflight,    \* the contamination requests awaiting a response
  started      \* how many contamination requests were sent

vars ==
  <<raw, pc, normalized, chain, inputType, extracted, addrChain,
    table, result, lsHistory, lsVersion, fresh, lastCall, v1Array,
    body, response, page, inflight, started>>

\* null: a storage key that is not set, a state that holds nothing
NULL == "null"

\* the browser storage and the bookkeeping of the values put into it
histVars == <<lsHistory, lsVersion, fresh, lastCall, v1Array>>

\* the variables the calls on one raw input leave alone
restVars ==
  <<addrChain, table, result, lsHistory, lsVersion, fresh, lastCall, v1Array,
    body, response, page, inflight, started>>

\* the state of the page component and of its requests
pageVars == <<page, inflight, started>>

\* the component after mounting on empty storage; a null currentTx is <<>>
InitialPage ==
  [currentTx            |-> <<>>,
   currentChain         |-> NULL,
   error                |-> NULL,
   contaminationStatus  |-> "idle",
   contaminationMatches |-> <<>>,
   contaminationError   |-> NULL,
   history              |-> <<>>]

NoPage == page = InitialPage /\ inflight = {} /\ started = 0

\* the request and the response of the API route
apiVars == <<body, response>>

\* a body whose JSON text is t and whose input field has the type, the
\* truthiness and, for a string, the characters given
Body(t, type, truthy, str) ==
  [json |-> t, type |-> type, truthy |-> truthy, str |-> str]

NoBody == Body("none", "undefined", FALSE, <<>>)

NoResponse ==
  [code |-> 0, status |-> "none", matches |-> <<>>, error |-> "none",
   called |-> FALSE]

\* no request has been sent
NoRequest == body = NoBody /\ response = NoResponse


\* the history key when it is not set, and when it holds the array a
NoArray == [set |-> FALSE, array |-> <<>>]
StoredArray(a) == [set |-> TRUE, array |-> a]

\* storage as a fresh browser profile has it
NoCall == [op |-> "none", value |-> <<>>, before |-> <<>>, returned |-> <<>>]

EmptyStorage ==
  /\ lsHistory = NoArray
  /\ lsVersion = NULL
  /\ fresh = 0
  /\ lastCall = NoCall
  /\ v1Array = <<>>

NoResult == [status |-> "none", matches |-> <<>>]

(***************************************************************************)
(* Bounds of the input family.                                             *)
(***************************************************************************)
\* longest payload (characters after the prefix) of a drawn input
MaxLen == 92
\* longest run of the first payload character before the second one starts
MaxSplit == 1
\* longest payload of an input drawn for the address classifier
MaxAddrLen == 90
\* largest number of blacklist entries
MaxTable == 2
\* number of distinct values that can be put into the history
MaxValues == 52
\* number of values on which every history operation is tried freely
MaxSmall == 2

(***************************************************************************)
(* Character classes (lib/tx.ts)                                           *)
(***************************************************************************)
BASE58_CHARS ==
  {"1","2","3","4","5","6","7","8","9",
   "A","B","C","D","E","F","G","H","J","K","L","M","N","P","Q","R","S","T",
   "U","V","W","X","Y","Z",
   "a","b","c","d","e","f","g","h","i","j","k","m","n","o","p","q","r","s",
   "t","u","v","w","x","y","z"}

HEX_CHARS ==
  {"0","1","2","3","4","5","6","7","8","9",
   "a","b","c","d","e","f","A","B","C","D","E","F"}

\* str.split('').every(...): true of the empty string
isHexString(str) == \A i \in 1..Len(str) : str[i] \in HEX_CHARS

isBase58String(str) == \A i \in 1..Len(str) : str[i] \in BASE58_CHARS

(***************************************************************************)
(* String primitives of the JavaScript runtime used by lib/tx.ts           *)
(***************************************************************************)
\* the characters String.prototype.trim removes (the ASCII ones)
Whitespace == {" ", "\n", "\t", "\r"}

RECURSIVE trimStart(_)
trimStart(s) ==
  IF s # <<>> /\ Head(s) \in Whitespace THEN trimStart(Tail(s)) ELSE s

RECURSIVE trimEnd(_)
trimEnd(s) ==
  IF s # <<>> /\ s[Len(s)] \in Whitespace
  THEN trimEnd(SubSeq(s, 1, Len(s) - 1))
  ELSE s

trim(s) == trimEnd(trimStart(s))

UpperLetters ==
  <<"A","B","C","D","E","F","G","H","I","J","K","L","M",
    "N","O","P","Q","R","S","T","U","V","W","X","Y","Z">>

LowerLetters ==
  <<"a","b","c","d","e","f","g","h","i","j","k","l","m",
    "n","o","p","q","r","s","t","u","v","w","x","y","z">>

toLowerCaseChar(c) ==
  IF \E i \in 1..26 : UpperLetters[i] = c
  THEN LowerLetters[CHOOSE i \in 1..26 : UpperLetters[i] = c]
  ELSE c

toLowerCase(s) == [i \in 1..Len(s) |-> toLowerCaseChar(s[i])]

startsWith(s, p) == Len(s) >= Len(p) /\ SubSeq(s, 1, Len(p)) = p

\* s.slice(n): the characters after the first n
slice(s, n) == SubSeq(s, n + 1, Len(s))

Prefix0x == <<"0","x">>

(***************************************************************************)
(* normalizeTx (lib/tx.ts)                                                 *)
(***************************************************************************)
\* normalizeTx that rewrites an upper-case prefix and lower-cases nothing else
normalizeTx_prefixOnly(tx) ==
  LET trimmed == trim(tx)
  IN  IF startsWith(trimmed, <<"0", "X">>)
      THEN Prefix0x \o slice(trimmed, 2)
      ELSE IF startsWith(trimmed, Prefix0x)
              \/ (Len(trimmed) = 64 /\ isHexString(trimmed))
      THEN toLowerCase(trimmed)
      ELSE trimmed

normalizeTx(tx) ==
  LET trimmed == trim(tx)
  IN  IF startsWith(trimmed, Prefix0x)
         \/ (Len(trimmed) = 64 /\ isHexString(trimmed))
      THEN toLowerCase(trimmed)
      ELSE trimmed

(***************************************************************************)
(* Variants of detectChain with one plausible defect each                  *)
(***************************************************************************)
\* classifies the argument as given, without normalizing it first
detectChain_noNormalize(tx) ==
  LET nrm == tx
  IN  IF nrm = <<>> \/ Len(nrm) < 10 THEN "unknown"
      ELSE IF startsWith(nrm, Prefix0x)
           THEN LET hashPart == slice(nrm, 2)
                IN  IF Len(hashPart) = 64 /\ isHexString(hashPart)
                    THEN "evm"
                    ELSE "unknown"
      ELSE IF Len(nrm) = 64 /\ isHexString(nrm) THEN "bitcoin"
      ELSE IF Len(nrm) >= 80 /\ Len(nrm) <= 90 /\ isBase58String(nrm)
           THEN "solana"
      ELSE "unknown"

\* the 0x branch does not check the length of the hash part
detectChain_evmAnyLength(tx) ==
  LET nrm == normalizeTx(tx)
  IN  IF nrm = <<>> \/ Len(nrm) < 10 THEN "unknown"
      ELSE IF startsWith(nrm, Prefix0x)
           THEN LET hashPart == slice(nrm, 2)
                IN  IF isHexString(hashPart)
                    THEN "evm"
                    ELSE "unknown"
      ELSE IF Len(nrm) = 64 /\ isHexString(nrm) THEN "bitcoin"
      ELSE IF Len(nrm) >= 80 /\ Len(nrm) <= 90 /\ isBase58String(nrm)
           THEN "solana"
      ELSE "unknown"

\* the 0x branch measures the whole string instead of the hash part
detectChain_evmWholeLength(tx) ==
  LET nrm == normalizeTx(tx)
  IN  IF nrm = <<>> \/ Len(nrm) < 10 THEN "unknown"
      ELSE IF startsWith(nrm, Prefix0x)
           THEN LET hashPart == slice(nrm, 2)
                IN  IF Len(nrm) = 64 /\ isHexString(hashPart)
                    THEN "evm"
                    ELSE "unknown"
      ELSE IF Len(nrm) = 64 /\ isHexString(nrm) THEN "bitcoin"
      ELSE IF Len(nrm) >= 80 /\ Len(nrm) <= 90 /\ isBase58String(nrm)
           THEN "solana"
      ELSE "unknown"

\* the Solana branch has no upper length limit
detectChain_solanaNoUpper(tx) ==
  LET nrm == normalizeTx(tx)
  IN  IF nrm = <<>> \/ Len(nrm) < 10 THEN "unknown"
      ELSE IF startsWith(nrm, Prefix0x)
           THEN LET hashPart == slice(nrm, 2)
                IN  IF Len(hashPart) = 64 /\ isHexString(hashPart)
                    THEN "evm"
                    ELSE "unknown"
      ELSE IF Len(nrm) = 64 /\ isHexString(nrm) THEN "bitcoin"
      ELSE IF Len(nrm) >= 80 /\ isBase58String(nrm)
           THEN "solana"
      ELSE "unknown"

(***************************************************************************)
(* detectChain (lib/tx.ts)                                                 *)
(***************************************************************************)
detectChain(tx) ==
  LET nrm == normalizeTx(tx)
  IN  IF nrm = <<>> \/ Len(nrm) < 10 THEN "unknown"
      ELSE IF startsWith(nrm, Prefix0x)
           THEN LET hashPart == slice(nrm, 2)
                IN  IF Len(hashPart) = 64 /\ isHexString(hashPart)
                    THEN "evm"
                    ELSE "unknown"
      ELSE IF Len(nrm) = 64 /\ isHexString(nrm) THEN "bitcoin"
      ELSE IF Len(nrm) >= 80 /\ Len(nrm) <= 90 /\ isBase58String(nrm)
           THEN "solana"
      ELSE "unknown"

isValidTx(tx) == detectChain(tx) # "unknown"

(***************************************************************************)
(* Functions that lib/tx.test.ts, lib/contamination.ts and the API route   *)
(* import from lib/tx.ts but whose bodies are not part of the sources:     *)
(* modelled from sections 4.1 - 4.5 of the specification.                  *)
(***************************************************************************)
\* 4.1: case-insensitively all '0' or all 'f'
isTrivialHex(s) ==
  /\ s # <<>>
  /\ \/ \A i \in 1..Len(s) : s[i] = "0"
     \/ \A i \in 1..Len(s) : s[i] \in {"f", "F"}

hasNonHexChar(s) == \E i \in 1..Len(s) : s[i] \notin HEX_CHARS

\* 4.3: 0x/0X, then 40 hex characters, not all zero
isEvmAddress(a) ==
  /\ Len(a) = 42
  /\ SubSeq(a, 1, 2) \in {<<"0","x">>, <<"0","X">>}
  /\ isHexString(slice(a, 2))
  /\ ~ (\A i \in 3..42 : a[i] = "0")

BECH32_CHARS ==
  {"0","2","3","4","5","6","7","8","9",
   "a","c","d","e","f","g","h","j","k","l","m","n","p","q","r","s","t","u",
   "v","w","x","y","z"}

\* 4.3: legacy (1...), P2SH (3...) or Bech32 (bc1...)
isBitcoinAddress(a) ==
  \/ /\ Len(a) >= 25 /\ Len(a) <= 34
     /\ a[1] \in {"1", "3"}
     /\ isBase58String(a)
  \/ /\ Len(a) >= 42 /\ Len(a) <= 62
     /\ toLowerCase(SubSeq(a, 1, 3)) = <<"b","c","1">>
     /\ \A i \in 4..Len(a) : a[i] \in BECH32_CHARS

\* 4.3: 32-44 base58 characters, at least one of them not a hex character
isSolanaAddress(a) ==
  /\ Len(a) >= 32 /\ Len(a) <= 44
  /\ isBase58String(a)
  /\ hasNonHexChar(a)

\* variant: the Solana shape is tried before the Bitcoin shapes
detectChainFromAddress_solanaFirst(a) ==
  IF isEvmAddress(a) THEN "evm"
  ELSE IF isSolanaAddress(a) THEN "solana"
  ELSE IF isBitcoinAddress(a) THEN "bitcoin"
  ELSE "unknown"

\* 4.3: first match in the order EVM, Bitcoin, Solana
detectChainFromAddress(a) ==
  IF isEvmAddress(a) THEN "evm"
  ELSE IF isBitcoinAddress(a) THEN "bitcoin"
  ELSE IF isSolanaAddress(a) THEN "solana"
  ELSE "unknown"

\* 4.5: address before hash; the hash classifier is detectChain of lib/tx.ts
detectInputType(input) ==
  LET nrm == normalizeTx(input)
  IN  IF Len(nrm) < 20 THEN "unknown"
      ELSE IF detectChainFromAddress(nrm) # "unknown" THEN "address"
      ELSE IF detectChain(nrm) # "unknown" THEN "tx"
      ELSE "unknown"

\* the positions of s at which p occurs
Occurrences(s, p) ==
  { i \in 1..(Len(s) - Len(p) + 1) : SubSeq(s, i, i + Len(p) - 1) = p }

\* the length of the longest run of characters of cs that starts at s[i]
RECURSIVE RunLength(_, _, _)
RunLength(s, i, cs) ==
  IF i <= Len(s) /\ s[i] \in cs THEN 1 + RunLength(s, i + 1, cs) ELSE 0

Min(S) == CHOOSE x \in S : \A y \in S : x <= y

UrlTx == <<"/","t","x","/">>

\* 4.2 step 2: ordered explorer patterns, the first that matches wins
extractFromUrl(url) ==
  LET evmAt  == { i \in Occurrences(url, UrlTx \o Prefix0x) :
                    RunLength(url, i + 6, HEX_CHARS) >= 64 }
      solAt  == { i \in Occurrences(url, UrlTx) :
                    RunLength(url, i + 4, BASE58_CHARS) >= 80 }
      btcAt  == { i \in Occurrences(url, UrlTx) :
                    RunLength(url, i + 4, HEX_CHARS) >= 64 }
      hexAt  == { i \in Occurrences(url, Prefix0x) :
                    RunLength(url, i + 2, HEX_CHARS) >= 64 }
      bareOk == /\ Len(url) >= 64
                /\ isHexString(SubSeq(url, Len(url) - 63, Len(url)))
  IN  IF evmAt # {}
      THEN SubSeq(url, Min(evmAt) + 4, Min(evmAt) + 69)
      ELSE IF solAt # {}
      THEN LET i == Min(solAt)
               n == RunLength(url, i + 4, BASE58_CHARS)
           IN  SubSeq(url, i + 4, i + 3 + (IF n > 90 THEN 90 ELSE n))
      ELSE IF btcAt # {}
      THEN SubSeq(url, Min(btcAt) + 4, Min(btcAt) + 67)
      ELSE IF hexAt # {}
      THEN SubSeq(url, Min(hexAt), Min(hexAt) + 65)
      ELSE IF bareOk
      THEN SubSeq(url, Len(url) - 63, Len(url))
      ELSE url


(***************************************************************************)
(* lib/contamination.ts                                                    *)
(***************************************************************************)
normalizeValue(input) == normalizeTx(input)

\* variant: compares lowercase whatever the shape of the input
valuesMatch_alwaysLower(input, blacklistValue) ==
  LET normalizedInput == normalizeValue(input)
      normalizedBlacklist == normalizeValue(blacklistValue)
  IN  toLowerCase(normalizedInput) = toLowerCase(normalizedBlacklist)

valuesMatch(input, blacklistValue) ==
  LET normalizedInput == normalizeValue(input)
      normalizedBlacklist == normalizeValue(blacklistValue)
  IN  IF startsWith(normalizedInput, Prefix0x)
         \/ (Len(normalizedInput) = 64 /\ isHexString(normalizedInput))
      THEN toLowerCase(normalizedInput) = toLowerCase(normalizedBlacklist)
      ELSE normalizedInput = normalizedBlacklist

\* matches.some(m => m.entry === entry): entries are compared by identity,
\* which is their position in the table
hasEntry(matches, i) == \E j \in 1..Len(matches) : matches[j].entry = i

\* variant: the first test adds every entry of the same type and chain
RECURSIVE scanEntries_primaryNoValue(_, _, _, _, _, _)
scanEntries_primaryNoValue(entries, i, nrm, type, chn, matches) ==
  IF i > Len(entries) THEN matches
  ELSE LET entry  == entries[i]
           first  == IF entry.type = type /\ entry.chain = chn
                     THEN Append(matches, [input |-> nrm, entry |-> i])
                     ELSE matches
           second == IF valuesMatch(nrm, entry.value) /\ ~ hasEntry(first, i)
                     THEN Append(first, [input |-> nrm, entry |-> i])
                     ELSE first
       IN  scanEntries_primaryNoValue(entries, i + 1, nrm, type, chn, second)

\* variant: the second test does not look for the entry in matches
RECURSIVE scanEntries_noDedup(_, _, _, _, _, _)
scanEntries_noDedup(entries, i, nrm, type, chn, matches) ==
  IF i > Len(entries) THEN matches
  ELSE LET entry  == entries[i]
           first  == IF /\ entry.type = type /\ entry.chain = chn
                        /\ valuesMatch(nrm, entry.value)
                     THEN Append(matches, [input |-> nrm, entry |-> i])
                     ELSE matches
           second == IF valuesMatch(nrm, entry.value)
                     THEN Append(first, [input |-> nrm, entry |-> i])
                     ELSE first
       IN  scanEntries_noDedup(entries, i + 1, nrm, type, chn, second)

\* the loop of checkContamination over the blacklist entries, from entry i on
RECURSIVE scanEntries(_, _, _, _, _, _)
scanEntries(entries, i, nrm, type, chn, matches) ==
  IF i > Len(entries) THEN matches
  ELSE LET entry  == entries[i]
           first  == IF /\ entry.type = type /\ entry.chain = chn
                        /\ valuesMatch(nrm, entry.value)
                     THEN Append(matches, [input |-> nrm, entry |-> i])
                     ELSE matches
           second == IF valuesMatch(nrm, entry.value) /\ ~ hasEntry(first, i)
                     THEN Append(first, [input |-> nrm, entry |-> i])
                     ELSE first
       IN  scanEntries(entries, i + 1, nrm, type, chn, second)

\* variant: an unidentified input is checked against the table all the same
checkContamination_noUnknownGuard(input, entries) ==
  LET nrm     == normalizeValue(input)
      type    == detectInputType(nrm)
      chn     == detectChain(nrm)
      matches == scanEntries(entries, 1, nrm, type, chn, <<>>)
  IN  [status  |-> IF Len(matches) > 0 THEN "flagged" ELSE "clean",
       matches |-> matches]

\* variant: flagged needs more than one match
checkContamination_flaggedAboveOne(input, entries) ==
  LET nrm  == normalizeValue(input)
      type == detectInputType(nrm)
      chn  == detectChain(nrm)
  IN  IF type = "unknown" \/ chn = "unknown"
      THEN [status |-> "unknown", matches |-> <<>>]
      ELSE LET matches == scanEntries(entries, 1, nrm, type, chn, <<>>)
           IN  [status  |-> IF Len(matches) > 1 THEN "flagged" ELSE "clean",
                matches |-> matches]

\* the entries are a parameter here; the code reads them from the blacklist
checkContamination(input, entries) ==
  LET nrm  == normalizeValue(input)
      type == detectInputType(nrm)
      chn  == detectChain(nrm)
  IN  IF type = "unknown" \/ chn = "unknown"
      THEN [status |-> "unknown", matches |-> <<>>]
      ELSE LET matches == scanEntries(entries, 1, nrm, type, chn, <<>>)
           IN  [status  |-> IF Len(matches) > 0 THEN "flagged" ELSE "clean",
                matches |-> matches]

isFlagged(input, entries) ==
  checkContamination(input, entries).status = "flagged"

(***************************************************************************)
(* History in localStorage (lib/tx.ts, storage format v2)                  *)
(*                                                                         *)
(* A stored array is a sequence of elements [kind, value,                  *)
(* contaminationStatus]: kind "string" is a plain string of format v1,     *)
(* kind "item" a HistoryItem.  The addedAt timestamp is left out: no       *)
(* operation reads it.  The code runs in the browser: isBrowser() is true. *)
(***************************************************************************)
CURRENT_VERSION == 2
MAX_HISTORY_ITEMS == 50

StringElement(s) ==
  [kind |-> "string", value |-> s, contaminationStatus |-> NULL]

HistoryItem(v, st) ==
  [kind |-> "item", value |-> v, contaminationStatus |-> st]

migrateV1ToV2(v1Data) ==
  [i \in 1..Len(v1Data) |-> HistoryItem(v1Data[i].value, NULL)]

\* parseInt of a stored version string
parseInt(str) == IF str = "2" THEN 2 ELSE 1

\* String(version)
VersionString(n) == IF n = 2 THEN "2" ELSE "1"

getStorageVersion(ver) == IF ver = NULL THEN 1 ELSE parseInt(ver)

\* items.filter(keep), keeping the order
RECURSIVE filterItems(_, _)
filterItems(items, dropped) ==
  IF items = <<>> THEN <<>>
  ELSE IF Head(items).value = dropped
       THEN filterItems(Tail(items), dropped)
       ELSE <<Head(items)>> \o filterItems(Tail(items), dropped)

\* getHistoryItems that saves the migrated items and not the version
getHistoryItems_noVersion(hist, ver) ==
  LET parsed == hist.array
  IN  IF ~hist.set
      THEN [items |-> <<>>, hist |-> hist, ver |-> ver]
      ELSE IF /\ getStorageVersion(ver) = 1
              /\ \A i \in 1..Len(parsed) : parsed[i].kind = "string"
      THEN [items |-> migrateV1ToV2(parsed),
            hist  |-> StoredArray(migrateV1ToV2(parsed)),
            ver   |-> ver]
      ELSE IF \A i \in 1..Len(parsed) :
                parsed[i].kind = "item" /\ parsed[i].value # <<>>
      THEN [items |-> parsed, hist |-> hist, ver |-> ver]
      ELSE [items |-> <<>>, hist |-> hist, ver |-> ver]

\* getHistoryItems: the items it returns and the storage it leaves behind
getHistoryItems(hist, ver) ==
  LET parsed == hist.array
  IN  IF ~hist.set
      THEN [items |-> <<>>, hist |-> hist, ver |-> ver]
      ELSE IF /\ getStorageVersion(ver) = 1
              /\ \A i \in 1..Len(parsed) : parsed[i].kind = "string"
      THEN [items |-> migrateV1ToV2(parsed),
            hist  |-> StoredArray(migrateV1ToV2(parsed)),
            ver   |-> VersionString(CURRENT_VERSION)]
      ELSE IF \A i \in 1..Len(parsed) :
                parsed[i].kind = "item" /\ parsed[i].value # <<>>
      THEN [items |-> parsed, hist |-> hist, ver |-> ver]
      ELSE [items |-> <<>>, hist |-> hist, ver |-> ver]

getHistory(hist, ver) ==
  LET items == getHistoryItems(hist, ver).items
  IN  [i \in 1..Len(items) |-> items[i].value]

\* addToHistory that does not remove the value already stored
addToHistory_noFilter(hist, ver, value, contaminationStatus) ==
  LET nrm == trim(value)
  IN  IF nrm = <<>> THEN [hist |-> hist, ver |-> ver]
      ELSE LET history  == getHistoryItems(hist, ver).items
               updated  == <<HistoryItem(nrm, contaminationStatus)>> \o history
               limited  == SubSeq(updated, 1,
                             IF Len(updated) < MAX_HISTORY_ITEMS
                             THEN Len(updated) ELSE MAX_HISTORY_ITEMS)
           IN  [hist |-> StoredArray(limited),
                ver  |-> VersionString(CURRENT_VERSION)]

\* addToHistory that puts the new item at the end
addToHistory_append(hist, ver, value, contaminationStatus) ==
  LET nrm == trim(value)
  IN  IF nrm = <<>> THEN [hist |-> hist, ver |-> ver]
      ELSE LET history  == getHistoryItems(hist, ver).items
               filtered == filterItems(history, nrm)
               updated  == filtered \o <<HistoryItem(nrm, contaminationStatus)>>
               limited  == SubSeq(updated, 1,
                             IF Len(updated) < MAX_HISTORY_ITEMS
                             THEN Len(updated) ELSE MAX_HISTORY_ITEMS)
           IN  [hist |-> StoredArray(limited),
                ver  |-> VersionString(CURRENT_VERSION)]

\* the storage after addToHistory(value, contaminationStatus)
addToHistory(hist, ver, value, contaminationStatus) ==
  LET nrm == trim(value)
  IN  IF nrm = <<>> THEN [hist |-> hist, ver |-> ver]
      ELSE LET history  == getHistoryItems(hist, ver).items
               filtered == filterItems(history, nrm)
               newItem  == HistoryItem(nrm, contaminationStatus)
               updated  == <<newItem>> \o filtered
               limited  == SubSeq(updated, 1,
                             IF Len(updated) < MAX_HISTORY_ITEMS
                             THEN Len(updated) ELSE MAX_HISTORY_ITEMS)
           IN  [hist |-> StoredArray(limited),
                ver  |-> VersionString(CURRENT_VERSION)]

\* the storage after updateContaminationStatus(value, contaminationStatus)
updateContaminationStatus(hist, ver, value, contaminationStatus) ==
  LET got     == getHistoryItems(hist, ver)
      history == got.items
      updated == [i \in 1..Len(history) |->
                    IF history[i].value = value
                    THEN [history[i] EXCEPT
                            !.contaminationStatus = contaminationStatus]
                    ELSE history[i]]
  IN  [hist |-> StoredArray(updated), ver |-> got.ver]

getContaminationStatus(hist, ver, value) ==
  LET history == getHistoryItems(hist, ver).items
  IN  IF \E i \in 1..Len(history) : history[i].value = value
      THEN history[CHOOSE i \in 1..Len(history) :
                     /\ history[i].value = value
                     /\ \A j \in 1..(i - 1) : history[j].value # value
                  ].contaminationStatus
      ELSE NULL

\* the storage after removeFromHistory(value)
removeFromHistory(hist, ver, value) ==
  LET got == getHistoryItems(hist, ver)
  IN  [hist |-> StoredArray(filterItems(got.items, value)), ver |-> got.ver]

\* the storage after clearHistory()
clearHistory == [hist |-> NoArray, ver |-> NULL]

(***************************************************************************)
(* The input family                                                        *)
(***************************************************************************)
Rep(c, n) == [i \in 1..n |-> c]

\* payload characters, one or two of each class the code tells apart
InputChars == {"0", "f", "F", "a", "G", "-"}

Prefix0X == <<"0","X">>
UrlEtherscan ==
  <<"h","t","t","p","s",":","/","/","e","t","h","e","r","s","c","a","n",
    ".","i","o","/","t","x","/">>
UrlSolscan ==
  <<"h","t","t","p","s",":","/","/","s","o","l","s","c","a","n",".","i","o",
    "/","t","x","/">>
UrlMempool ==
  <<"h","t","t","p","s",":","/","/","m","e","m","p","o","o","l",".","s","p",
    "a","c","e","/","t","x","/">>

InputPrefixes ==
  {<<>>, Prefix0x, Prefix0X, UrlEtherscan \o Prefix0x, UrlSolscan, UrlMempool}

\* where whitespace is put into the input
WsModes == {"none", "outer", "inner"}

Payload(c1, c2, k, n, ws) ==
  Rep(c1, k) \o (IF ws = "inner" THEN <<"\n">> ELSE <<>>) \o Rep(c2, n - k)

MakeInput(p, c1, c2, k, n, ws) ==
  (IF ws = "outer" THEN <<" ", "\n">> ELSE <<>>)
  \o p \o Payload(c1, c2, k, n, ws)
  \o (IF ws = "outer" THEN <<"\n", " ">> ELSE <<>>)

Inputs ==
  { MakeInput(p, c1, c2, k, n, ws) :
      p \in InputPrefixes, c1 \in InputChars, c2 \in InputChars,
      k \in 0..MaxSplit, n \in MaxSplit..MaxLen, ws \in WsModes }

(***************************************************************************)
(* State machine: one raw input, the calls applied to it in turn           *)
(***************************************************************************)
Init ==
  /\ raw \in Inputs \cup {<<>>, <<" ", " ", " ">>}
  /\ pc = "start"
  /\ normalized = <<>>
  /\ chain = "none"
  /\ inputType = "none"
  /\ extracted = <<>>
  /\ addrChain = "none"
  /\ table = <<>>
  /\ result = NoResult
  /\ EmptyStorage
  /\ NoRequest
  /\ NoPage

Normalize ==
  /\ pc = "start"
  /\ normalized' = normalizeTx(raw)
  /\ pc' = "normalized"
  /\ UNCHANGED <<raw, chain, inputType, extracted>>
  /\ UNCHANGED restVars

DetectChain ==
  /\ pc = "normalized"
  /\ chain' = detectChain(raw)
  /\ pc' = "detected"
  /\ UNCHANGED <<raw, normalized, inputType, extracted>>
  /\ UNCHANGED restVars

DetectInputType ==
  /\ pc = "detected"
  /\ inputType' = detectInputType(raw)
  /\ pc' = "typed"
  /\ UNCHANGED <<raw, normalized, chain, extracted>>
  /\ UNCHANGED restVars

ExtractFromUrl ==
  /\ pc = "typed"
  /\ extracted' = extractFromUrl(raw)
  /\ pc' = "done"
  /\ UNCHANGED <<raw, normalized, chain, inputType>>
  /\ UNCHANGED restVars

Next == Normalize \/ DetectChain \/ DetectInputType \/ ExtractFromUrl

Spec == Init /\ [][Next]_vars

(***************************************************************************)
(* The address classifier applied to address-shaped inputs                 *)
(***************************************************************************)
AddressChars == {"0", "a", "b", "G", "q"}

PrefixBc1 == <<"b","c","1">>

AddressPrefixes ==
  {<<>>, <<"1">>, <<"3">>, <<"2">>, PrefixBc1, <<"B","C","1">>,
   Prefix0x, Prefix0X}

AddressInputs ==
  { MakeInput(p, c1, c2, k, n, "none") :
      p \in AddressPrefixes, c1 \in AddressChars, c2 \in AddressChars,
      k \in 0..MaxSplit, n \in MaxSplit..MaxAddrLen }

InitAddress ==
  /\ raw \in AddressInputs
  /\ pc = "start"
  /\ normalized = <<>>
  /\ chain = "none"
  /\ inputType = "none"
  /\ extracted = <<>>
  /\ addrChain = "none"
  /\ table = <<>>
  /\ result = NoResult
  /\ EmptyStorage
  /\ NoRequest
  /\ NoPage

DetectChainFromAddress ==
  /\ pc = "start"
  /\ addrChain' = detectChainFromAddress(raw)
  /\ pc' = "classified"
  /\ UNCHANGED <<raw, normalized, chain, inputType, extracted>>
  /\ UNCHANGED <<table, result>>
  /\ UNCHANGED <<histVars, apiVars, pageVars>>

NextAddress == DetectChainFromAddress

SpecAddress == InitAddress /\ [][NextAddress]_vars

(***************************************************************************)
(* checkContamination applied to an input and a blacklist                  *)
(***************************************************************************)
\* payload lengths: EVM address, 64-hex hash, Solana signature
ContaminationLengths == {40, 64, 85}

ContaminationInputs ==
  { MakeInput(p, c1, c2, 1, n, ws) :
      p \in {<<>>, Prefix0x, Prefix0X}, c1 \in {"a", "A", "G"},
      c2 \in {"a"}, n \in ContaminationLengths,
      ws \in {"none", "outer"} }

swapCaseChar(c) ==
  IF \E i \in 1..26 : LowerLetters[i] = c
  THEN UpperLetters[CHOOSE i \in 1..26 : LowerLetters[i] = c]
  ELSE toLowerCaseChar(c)

\* the same string with the case of every letter inverted
swapCase(s) == [i \in 1..Len(s) |-> swapCaseChar(s[i])]

OtherValue == Prefix0x \o Rep("b", 64)

\* blacklist values: the input's value, another spelling of it, another value
EntryValues(input) ==
  {normalizeTx(input), swapCase(normalizeTx(input)), OtherValue}

EntryKinds ==
  { [chain |-> "evm", type |-> "tx"], [chain |-> "solana", type |-> "tx"],
    [chain |-> "evm", type |-> "address"] }

Entries(input) ==
  { [value |-> v, chain |-> k.chain, type |-> k.type] :
      v \in EntryValues(input), k \in EntryKinds }

Tables(input) ==
  UNION { [1..n -> Entries(input)] : n \in 0..MaxTable }

InitContamination ==
  /\ raw \in ContaminationInputs
  /\ table \in Tables(raw)
  /\ pc = "start"
  /\ normalized = <<>>
  /\ chain = "none"
  /\ inputType = "none"
  /\ extracted = <<>>
  /\ addrChain = "none"
  /\ result = NoResult
  /\ EmptyStorage
  /\ NoRequest
  /\ NoPage

CheckContamination ==
  /\ pc = "start"
  /\ result' = checkContamination(raw, table)
  /\ pc' = "checked"
  /\ UNCHANGED <<raw, normalized, chain, inputType, extracted, addrChain>>
  /\ UNCHANGED table
  /\ UNCHANGED <<histVars, apiVars, pageVars>>

NextContamination == CheckContamination

SpecContamination == InitContamination /\ [][NextContamination]_vars

(***************************************************************************)
(* Sequences of history operations, starting from empty storage.           *)
(* Values 1..MaxSmall are added, re-added, updated and removed in every    *)
(* order; after that never-used values are added one at a time, and the   *)
(* history may be cleared in between.                                      *)
(***************************************************************************)
Digits == <<"0","1","2","3","4","5","6","7","8","9">>

\* the i-th value: the characters "v" and the two digits of i
HistoryValue(i) == <<"v", Digits[(i \div 10) + 1], Digits[(i % 10) + 1]>>

SmallValues == { HistoryValue(i) : i \in 1..MaxSmall }

\* arguments of addToHistory: a value, the value with blanks around it,
\* the empty string and a string of blanks
AddArguments ==
  SmallValues \cup { <<" ">> \o v \o <<"\n">> : v \in SmallValues }
    \cup {<<>>, <<" ", " ">>}

Statuses == {"clean", "flagged", "unknown"}

InitHistory ==
  /\ raw = <<>>
  /\ pc = "start"
  /\ normalized = <<>>
  /\ chain = "none"
  /\ inputType = "none"
  /\ extracted = <<>>
  /\ addrChain = "none"
  /\ table = <<>>
  /\ result = NoResult
  /\ EmptyStorage
  /\ NoRequest
  /\ NoPage

detectVars == <<raw, pc, normalized, chain, inputType, extracted, addrChain>>

Store(st) == lsHistory' = st.hist /\ lsVersion' = st.ver

\* the call op(value), made on the storage as it is now
Call(op, value) ==
  lastCall' = [op |-> op, value |-> value,
               before |-> getHistoryItems(lsHistory, lsVersion).items,
               returned |-> <<>>]

AddToHistory ==
  /\ fresh = 0
  /\ \E v \in AddArguments, st \in {NULL, "flagged"} :
       /\ Store(addToHistory(lsHistory, lsVersion, v, st))
       /\ Call("addToHistory", v)
  /\ UNCHANGED <<detectVars, table, result, fresh, v1Array, apiVars, pageVars>>

AddFreshToHistory ==
  /\ MaxSmall + fresh < MaxValues
  /\ Store(addToHistory(lsHistory, lsVersion,
                        HistoryValue(MaxSmall + fresh + 1), NULL))
  /\ Call("addToHistory", HistoryValue(MaxSmall + fresh + 1))
  /\ fresh' = fresh + 1
  /\ UNCHANGED <<detectVars, table, result, v1Array, apiVars, pageVars>>

UpdateContaminationStatus ==
  /\ fresh = 0
  /\ \E v \in SmallValues, st \in Statuses :
       /\ Store(updateContaminationStatus(lsHistory, lsVersion, v, st))
       /\ Call("updateContaminationStatus", v)
  /\ UNCHANGED <<detectVars, table, result, fresh, v1Array, apiVars, pageVars>>

RemoveFromHistory ==
  /\ fresh = 0
  /\ \E v \in SmallValues :
       /\ Store(removeFromHistory(lsHistory, lsVersion, v))
       /\ Call("removeFromHistory", v)
  /\ UNCHANGED <<detectVars, table, result, fresh, v1Array, apiVars, pageVars>>

ClearHistory ==
  /\ Store(clearHistory)
  /\ Call("clearHistory", <<>>)
  /\ UNCHANGED <<detectVars, table, result, fresh, v1Array, apiVars, pageVars>>

NextHistory ==
  \/ AddToHistory
  \/ AddFreshToHistory
  \/ UpdateContaminationStatus
  \/ RemoveFromHistory
  \/ ClearHistory

SpecHistory == InitHistory /\ [][NextHistory]_vars

(***************************************************************************)
(* Reading a history that the v1 code has written: an array of distinct,   *)
(* non-empty strings under the history key and no version key.             *)
(***************************************************************************)
\* number of values the v1 code may have stored, and how many of them
MaxV1Values == 4
MaxV1Len == 3

V1Values == { HistoryValue(i) : i \in 1..MaxV1Values }

V1Arrays ==
  { a \in UNION { [1..n -> V1Values] : n \in 0..MaxV1Len } :
      \A i, j \in 1..Len(a) : a[i] = a[j] => i = j }

InitMigration ==
  /\ raw = <<>>
  /\ pc = "start"
  /\ normalized = <<>>
  /\ chain = "none"
  /\ inputType = "none"
  /\ extracted = <<>>
  /\ addrChain = "none"
  /\ table = <<>>
  /\ result = NoResult
  /\ fresh = 0
  /\ lastCall = NoCall
  /\ v1Array \in V1Arrays
  /\ lsHistory =
       StoredArray([i \in 1..Len(v1Array) |-> StringElement(v1Array[i])])
  /\ lsVersion = NULL
  /\ NoRequest
  /\ NoPage

GetHistoryItems ==
  /\ LET got == getHistoryItems(lsHistory, lsVersion)
     IN  /\ Store(got)
         /\ lastCall' = [op |-> "getHistoryItems", value |-> <<>>,
                         before |-> lsHistory.array, returned |-> got.items]
  /\ UNCHANGED <<detectVars, table, result, fresh, v1Array, apiVars, pageVars>>

GetHistory ==
  /\ Store(getHistoryItems(lsHistory, lsVersion))
  /\ lastCall' = [op |-> "getHistory", value |-> <<>>,
                  before |-> lsHistory.array,
                  returned |-> getHistory(lsHistory, lsVersion)]
  /\ UNCHANGED <<detectVars, table, result, fresh, v1Array, apiVars, pageVars>>

NextMigration == GetHistoryItems \/ GetHistory

SpecMigration == InitMigration /\ [][NextMigration]_vars

(***************************************************************************)
(* POST /api/contamination (app/api/contamination/route.ts)                *)
(***************************************************************************)
\* the longest trimmed input the route accepts
InputLimit == 200

ErrorResponse(code, message) ==
  [code |-> code, status |-> "none", matches |-> <<>>, error |-> message,
   called |-> FALSE]

\* the response to a request with the given body; the blacklist is a
\* parameter here
POST(b, entries) ==
  IF b.json = "invalid"
  THEN \* request.json() throws a SyntaxError
       ErrorResponse(400, "Invalid JSON in request body.")
  ELSE IF b.json = "null"
  THEN \* body.input throws a TypeError
       ErrorResponse(500, "Internal server error during contamination check.")
  ELSE IF ~b.truthy \/ b.type # "string"
  THEN ErrorResponse(400,
         "Missing or invalid \"input\" field. Expected a string.")
  ELSE LET input == trim(b.str)
       IN  IF Len(input) = 0
           THEN ErrorResponse(400, "Input cannot be empty.")
           ELSE IF Len(input) > InputLimit
           THEN ErrorResponse(400, "Input too long. Maximum 200 characters.")
           ELSE LET normalizedInput == normalizeTx(input)
                    res == checkContamination(normalizedInput, entries)
                IN  [code |-> 200, status |-> res.status,
                     matches |-> res.matches, error |-> "none",
                     called |-> TRUE]

\* input fields that are not strings: absent, null, 0, 7, true, []
OtherFields ==
  { Body("object", "undefined", FALSE, <<>>),
    Body("object", "null", FALSE, <<>>),
    Body("object", "number", FALSE, <<>>),
    Body("object", "number", TRUE, <<>>),
    Body("object", "boolean", TRUE, <<>>),
    Body("object", "object", TRUE, <<>>) }

\* strings sent as input: empty, blank, identifiers of each chain, with and
\* without whitespace around them, and strings around the length limit
ApiStrings ==
  {<<>>, <<" ", "\n">>}
    \cup { MakeInput(p, c1, "a", 1, n, ws) :
             p \in {<<>>, Prefix0x}, c1 \in {"a", "G"}, n \in {64, 85},
             ws \in {"none", "outer"} }
    \cup { MakeInput(<<>>, "a", "a", 1, n, ws) :
             n \in (InputLimit - 1)..(InputLimit + 1),
             ws \in {"none", "outer"} }

Bodies ==
  { Body("invalid", "undefined", FALSE, <<>>),
    Body("null", "undefined", FALSE, <<>>) }
    \cup OtherFields
    \cup { Body("object", "string", str # <<>>, str) : str \in ApiStrings }

InitApi ==
  /\ raw = <<>>
  /\ pc = "start"
  /\ normalized = <<>>
  /\ chain = "none"
  /\ inputType = "none"
  /\ extracted = <<>>
  /\ addrChain = "none"
  /\ result = NoResult
  /\ EmptyStorage
  /\ body \in Bodies
  /\ table \in Tables(body.str)
  /\ response = NoResponse
  /\ NoPage

Post ==
  /\ pc = "start"
  /\ response' = POST(body, table)
  /\ pc' = "responded"
  /\ UNCHANGED <<raw, normalized, chain, inputType, extracted, addrChain>>
  /\ UNCHANGED <<table, result, histVars, body, pageVars>>

NextApi == Post

SpecApi == InitApi /\ [][NextApi]_vars

(***************************************************************************)
(* The page (Home component): submissions, history selections, clears and  *)
(* the responses of the contamination requests, which arrive in any order. *)
(***************************************************************************)
\* number of contamination requests the page sends
MaxRequests == 3

\* Home.checkContamination up to its first await: the request is sent
beginCheck(pg) ==
  [pg EXCEPT !.contaminationStatus = "checking",
             !.contaminationMatches = <<>>,
             !.contaminationError = NULL]

\* Home.checkContamination whose catch block leaves the status alone
settleCheck_noReset(pg, resp) ==
  IF resp.code = 200
  THEN [pg EXCEPT !.contaminationStatus = resp.status,
                  !.contaminationMatches = resp.matches]
  ELSE [pg EXCEPT !.contaminationError = resp.error]

\* Home.checkContamination after its awaits: resp is the response of the
\* route, or code 0 and the message of the error that fetch threw
settleCheck(pg, resp) ==
  IF resp.code = 200
  THEN [pg EXCEPT !.contaminationStatus = resp.status,
                  !.contaminationMatches = resp.matches]
  ELSE [pg EXCEPT !.contaminationError = resp.error,
                  !.contaminationStatus = "idle"]

\* handleSubmit that skips the validation
handleSubmit_noValidation(pg, tx) ==
  LET nrm == normalizeTx(tx)
  IN  [valid |-> TRUE,
       input |-> nrm,
       page  |-> [pg EXCEPT !.error = NULL,
                            !.currentTx = nrm,
                            !.currentChain = detectChain(nrm)]]

\* handleSubmit up to addToHistory: whether the input is valid, the
\* normalized input and the state that has been set
handleSubmit(pg, tx) ==
  LET nrm == normalizeTx(tx)
  IN  IF ~isValidTx(nrm)
      THEN [valid |-> FALSE,
            input |-> nrm,
            page  |-> [pg EXCEPT
                         !.error = "Unable to detect chain.",
                         !.currentTx = <<>>,
                         !.currentChain = NULL,
                         !.contaminationStatus = "idle"]]
      ELSE [valid |-> TRUE,
            input |-> nrm,
            page  |-> [pg EXCEPT !.error = NULL,
                                 !.currentTx = nrm,
                                 !.currentChain = detectChain(nrm)]]

\* handleSelectFromHistory up to addToHistory
handleSelectFromHistory(pg, tx) ==
  [pg EXCEPT !.currentTx = tx,
             !.currentChain = detectChain(tx),
             !.error = NULL]

\* what the user types: an EVM hash, the same hash in upper case with
\* whitespace around it, a Solana signature, and two invalid inputs
TxEvm == Prefix0x \o Rep("a", 64)

PageInputs ==
  { TxEvm,
    MakeInput(Prefix0x, "A", "A", 1, 64, "outer"),
    MakeInput(<<>>, "G", "a", 1, 85, "none"),
    <<"a", "b", "c">>,
    <<>> }

\* the blacklist of the route: empty, or with the EVM hash in it
PageTables ==
  { <<>>, <<[value |-> TxEvm, chain |-> "evm", type |-> "tx"]>> }

InitPage ==
  /\ raw = <<>>
  /\ pc = "start"
  /\ normalized = <<>>
  /\ chain = "none"
  /\ inputType = "none"
  /\ extracted = <<>>
  /\ addrChain = "none"
  /\ result = NoResult
  /\ EmptyStorage
  /\ NoRequest
  /\ NoPage
  /\ table \in PageTables

\* the request that fetch sends for the input, with the response that the
\* route computes for it
Request(id, input) ==
  [id |-> id, input |-> input,
   answer |-> POST(Body("object", "string", input # <<>>, input), table)]

\* addToHistory(value); setHistory(getHistory()); checkContamination(value)
StoreAndCheck(pg, value) ==
  LET added == addToHistory(lsHistory, lsVersion, value, NULL)
      got   == getHistoryItems(added.hist, added.ver)
  IN  /\ Store(got)
      /\ page' = beginCheck([pg EXCEPT !.history =
                    [i \in 1..Len(got.items) |-> got.items[i].value]])
      /\ inflight' = inflight \cup {Request(started + 1, value)}
      /\ started' = started + 1

otherVars == <<detectVars, table, result, fresh, lastCall, v1Array, apiVars>>

HandleSubmit ==
  /\ \E tx \in PageInputs :
       LET r == handleSubmit(page, tx)
       IN  IF r.valid
           THEN /\ started < MaxRequests
                /\ StoreAndCheck(r.page, r.input)
           ELSE /\ page' = r.page
                /\ UNCHANGED <<lsHistory, lsVersion, inflight, started>>
  /\ UNCHANGED otherVars

HandleSelectFromHistory ==
  /\ started < MaxRequests
  /\ \E i \in 1..Len(page.history) :
       StoreAndCheck(handleSelectFromHistory(page, page.history[i]),
                     page.history[i])
  /\ UNCHANGED otherVars

HandleClearHistory ==
  /\ Store(clearHistory)
  /\ page' = [page EXCEPT !.history = <<>>]
  /\ UNCHANGED <<inflight, started>>
  /\ UNCHANGED otherVars

\* the response to the request r: that of the route, an error response of
\* the server, or an error thrown by fetch
Responses(r) ==
  { r.answer,
    ErrorResponse(500, "Internal server error during contamination check."),
    ErrorResponse(0, "Failed to fetch") }

\* a request completes and Home.checkContamination runs to its end
Respond ==
  /\ \E r \in inflight : \E resp \in Responses(r) :
       /\ inflight' = inflight \ {r}
       /\ page' = settleCheck(page, resp)
       /\ IF resp.code = 200
          THEN Store(updateContaminationStatus(lsHistory, lsVersion,
                                               r.input, resp.status))
          ELSE UNCHANGED <<lsHistory, lsVersion>>
  /\ UNCHANGED started
  /\ UNCHANGED otherVars

NextPage ==
  \/ HandleSubmit
  \/ HandleSelectFromHistory
  \/ HandleClearHistory
  \/ Respond

SpecPage == InitPage /\ [][NextPage]_vars

\* every request is answered or fails: fetch resolves or rejects
SpecPageFair == SpecPage /\ WF_vars(Respond)

(***************************************************************************)
(* Properties                                                              *)
(***************************************************************************)
Detected == pc \in {"detected", "typed", "done"}

\* C1: detectChain of a raw string equals detectChain of its normalized
\* form (detection is idempotent with respect to normalization).
ThmC1 == Detected => chain = detectChain(normalized)

\* a classified input that normalization changed
WitC1 == pc = "detected" /\ raw # normalized /\ chain # "unknown"

\* a hex payload of an identifier's length made of '0' only or 'f'/'F' only
IsTrivialInput(s) ==
  \/ Len(s) = 64 /\ isTrivialHex(s)
  \/ /\ startsWith(s, Prefix0x)
     /\ Len(s) \in {42, 66}
     /\ isTrivialHex(slice(s, 2))

\* C2: an all-zero or all-F hex payload of the correct length (64 with or
\* without 0x, 40 with 0x) is classified unknown.
CexC2 == (Detected /\ IsTrivialInput(raw)) => chain = "unknown"

\* C3: a raw string whose normalized form is shorter than 20 characters
\* has chain unknown and input type unknown.
ThmC3 ==
  (pc \in {"typed", "done"} /\ Len(normalized) < 20)
    => (chain = "unknown" /\ inputType = "unknown")

\* a short input that passes the code's own minimum length of 10
WitC3 ==
  /\ pc = "typed"
  /\ Len(normalized) >= 10 /\ Len(normalized) < 20
  /\ startsWith(normalized, Prefix0x)
  /\ isHexString(slice(normalized, 2))

IsHexPayload(h) == Len(h) = 64 /\ isHexString(h) /\ ~ isTrivialHex(h)

\* C4: for a non-trivial 64-character hex payload h in any letter case,
\* '0x' + h is evm and h alone is bitcoin.
ThmC4 ==
  /\ (Detected /\ IsHexPayload(raw))
       => (chain = "bitcoin" /\ detectChain(Prefix0x \o raw) = "evm")
  /\ (Detected /\ startsWith(raw, Prefix0x) /\ IsHexPayload(slice(raw, 2)))
       => (chain = "evm" /\ detectChain(slice(raw, 2)) = "bitcoin")

\* a 0x-prefixed payload of mixed case
WitC4 ==
  /\ pc = "detected"
  /\ startsWith(raw, Prefix0x) /\ IsHexPayload(slice(raw, 2))
  /\ raw # toLowerCase(raw)
  /\ chain = "evm"

Is0xAddress(n) == Len(n) = 42 /\ isHexString(slice(n, 2))
Is0xHash(n) == Len(n) = 66 /\ isHexString(slice(n, 2))

\* C5: a normalized input that starts with 0x is never bitcoin or solana,
\* and is unknown unless it is 0x + 40 hex or 0x + 64 hex.
ThmC5 ==
  (Detected /\ startsWith(normalized, Prefix0x))
    => /\ chain \notin {"bitcoin", "solana"}
       /\ (~ Is0xAddress(normalized) /\ ~ Is0xHash(normalized))
            => chain = "unknown"

\* 0x followed by 65 hex characters
WitC5 ==
  /\ pc = "detected"
  /\ startsWith(normalized, Prefix0x)
  /\ Len(normalized) = 67 /\ isHexString(slice(normalized, 2))
  /\ chain = "unknown"

\* C6: an input starting with 0X is normalized to 0x + lowercase rest and
\* classified like '0x' + lowercase rest.
CexC6 ==
  (Detected /\ startsWith(trim(raw), Prefix0X))
    => LET lowered == Prefix0x \o toLowerCase(slice(trim(raw), 2))
       IN  normalized = lowered /\ chain = detectChain(lowered)

\* C7: the output of normalizeTx contains no whitespace at any position.
CexC7 ==
  pc # "start" => \A i \in 1..Len(normalized) : normalized[i] \notin Whitespace

\* C8: an input longer than any address format is solana only if it is
\* entirely base58 and has at least one character outside the hex alphabet.
CexC8 ==
  (Detected /\ Len(normalized) > 44 /\ chain = "solana")
    => (isBase58String(normalized) /\ hasNonHexChar(normalized))

IsEvmId(id) == startsWith(id, Prefix0x) /\ IsHexPayload(slice(id, 2))
IsBitcoinId(id) == IsHexPayload(id)
IsSolanaId(id) ==
  /\ Len(id) >= 85 /\ Len(id) <= 90
  /\ isBase58String(id) /\ hasNonHexChar(id)

IsExplorerUrl(s) ==
  \/ startsWith(s, UrlEtherscan) /\ IsEvmId(slice(s, Len(UrlEtherscan)))
  \/ startsWith(s, UrlMempool) /\ IsBitcoinId(slice(s, Len(UrlMempool)))
  \/ startsWith(s, UrlSolscan) /\ IsSolanaId(slice(s, Len(UrlSolscan)))

UrlId(s) ==
  IF startsWith(s, UrlEtherscan) THEN slice(s, Len(UrlEtherscan))
  ELSE IF startsWith(s, UrlMempool) THEN slice(s, Len(UrlMempool))
  ELSE slice(s, Len(UrlSolscan))

\* C10: for a supported explorer URL around a valid identifier id,
\* detectChain(url) = detectChain(id) and extractFromUrl(url) = id.
CexC10 ==
  (pc = "done" /\ IsExplorerUrl(raw))
    => (chain = detectChain(UrlId(raw)) /\ extracted = UrlId(raw))

Typed == pc \in {"typed", "done"}

\* 0x or 0X followed by exactly 40 hex characters that are not all zero
IsEvmAddressInput(s) ==
  /\ Len(s) = 42
  /\ (startsWith(s, Prefix0x) \/ startsWith(s, Prefix0X))
  /\ isHexString(slice(s, 2))
  /\ \E i \in 3..42 : s[i] # "0"

\* C11: 0x (or 0X) + 40 hex characters, not all zero, has chain evm and
\* input type address; 0x + 64 hex characters is not an EVM address.
CexC11 ==
  /\ (Detected /\ IsEvmAddressInput(raw)) => chain = "evm"
  /\ (Typed /\ IsEvmAddressInput(raw)) => inputType = "address"
  /\ Is0xHash(raw) => ~ isEvmAddress(raw)

\* C13: the detected chain is unknown exactly when the detected input kind
\* is unknown.
CexC13 == Typed => (chain = "unknown" <=> inputType = "unknown")

IsLegacyShape(s) ==
  /\ Len(s) >= 25 /\ Len(s) <= 34
  /\ s[1] \in {"1", "3"}
  /\ isBase58String(s)

IsBech32Shape(s) ==
  /\ Len(s) >= 42 /\ Len(s) <= 62
  /\ toLowerCase(SubSeq(s, 1, 3)) = PrefixBc1
  /\ \A i \in 4..Len(s) : s[i] \in BECH32_CHARS

IsSolanaShape(s) ==
  /\ Len(s) >= 32 /\ Len(s) <= 44
  /\ isBase58String(s)
  /\ hasNonHexChar(s)

\* C12: the address classifier answers in the order EVM, Bitcoin, Solana:
\* a string of both a Bitcoin legacy/P2SH shape and the Solana shape is
\* bitcoin, and a string of no shape is unknown.
ThmC12 ==
  pc = "classified" =>
    /\ (IsLegacyShape(raw) /\ IsSolanaShape(raw)) => addrChain = "bitcoin"
    /\ IsEvmAddressInput(raw) => addrChain = "evm"
    /\ (IsLegacyShape(raw) \/ IsBech32Shape(raw)) => addrChain = "bitcoin"
    /\ ( /\ ~ IsEvmAddressInput(raw)
         /\ ~ IsLegacyShape(raw) /\ ~ IsBech32Shape(raw)
         /\ ~ IsSolanaShape(raw) ) => addrChain = "unknown"
    /\ addrChain = "solana" => IsSolanaShape(raw)

\* a string that has both the legacy Bitcoin and the Solana shape
WitC12 ==
  /\ pc = "classified"
  /\ IsLegacyShape(raw) /\ IsSolanaShape(raw)
  /\ addrChain = "bitcoin"

Checked == pc = "checked"

\* the positions of the table that result.matches reports, in order
MatchedEntries(r) == [j \in 1..Len(r.matches) |-> r.matches[j].entry]

\* C14: when the detected chain or kind of the input is unknown, the result
\* is status unknown with no matches, whatever the table holds.
ThmC14 ==
  ( /\ Checked
    /\ (detectChain(raw) = "unknown" \/ detectInputType(raw) = "unknown") )
    => (result.status = "unknown" /\ result.matches = <<>>)

\* an unidentified input whose exact value is in the table
WitC14 ==
  /\ Checked
  /\ detectChain(raw) = "unknown"
  /\ \E i \in 1..Len(table) : table[i].value = normalizeTx(raw)
  /\ result.status = "unknown"

\* C15: status is flagged exactly when matches is non-empty; clean and
\* unknown come with no matches.
ThmC15 ==
  Checked =>
    /\ result.status \in {"clean", "flagged", "unknown"}
    /\ result.status = "flagged" <=> result.matches # <<>>

\* a flagged result with exactly one match
WitC15 == Checked /\ result.status = "flagged" /\ Len(result.matches) = 1

\* a hex-shaped value: 0x-prefixed address or hash, or bare 64-hex hash
IsHexValue(v) ==
  \/ Is0xAddress(v) /\ startsWith(v, Prefix0x)
  \/ Is0xHash(v) /\ startsWith(v, Prefix0x)
  \/ Len(v) = 64 /\ isHexString(v)

\* spellings of v that differ from it in letter case only
Spellings(v) == {toLowerCase(v), swapCase(v)}

\* C16: for a hex-shaped value, two spellings that differ only in letter
\* case give the same status and the same matched entries against the same
\* table, whatever the case of the entries' values.
CexC16 ==
  (Checked /\ IsHexValue(trim(raw)))
    => \A s2 \in Spellings(trim(raw)) :
         LET r2 == checkContamination(s2, table)
         IN  /\ r2.status = result.status
             /\ MatchedEntries(r2) = MatchedEntries(result)

\* a base58 value that is not hex-shaped
IsBase58Value(v) ==
  /\ v # <<>>
  /\ isBase58String(v)
  /\ ~ (Len(v) = 64 /\ isHexString(v))

DiffersOnlyInCase(v, w) == v # w /\ toLowerCase(v) = toLowerCase(w)

\* C17: for an input that is not hex-shaped (base58), normalizeTx keeps the
\* letter case and an entry whose value differs from the normalized input
\* only in letter case is not matched.
ThmC17 ==
  (Checked /\ IsBase58Value(trim(raw)))
    => /\ normalizeTx(raw) = trim(raw)
       /\ \A i \in 1..Len(table) :
            DiffersOnlyInCase(table[i].value, normalizeTx(raw))
              => ~ hasEntry(result.matches, i)

\* a classified base58 input checked against another spelling of itself,
\* filed under the input's own chain and kind
WitC17 ==
  /\ Checked
  /\ IsBase58Value(trim(raw)) /\ hasNonHexChar(trim(raw))
  /\ result.status = "clean"
  /\ \E i \in 1..Len(table) :
       /\ DiffersOnlyInCase(table[i].value, normalizeTx(raw))
       /\ table[i].chain = detectChain(raw)
       /\ table[i].type = detectInputType(raw)

\* chain-appropriate equality of a normalized input n and an entry value v
SameValue(n, v) ==
  IF startsWith(n, Prefix0x) \/ (Len(n) = 64 /\ isHexString(n))
  THEN toLowerCase(n) = toLowerCase(v)
  ELSE n = v

\* C18 as stated: every reported entry agrees with the input on chain, kind
\* and value.
CexC18 ==
  Checked =>
    \A j \in 1..Len(result.matches) :
      LET e == table[result.matches[j].entry]
      IN  /\ e.chain = detectChain(raw)
          /\ e.type = detectInputType(raw)
          /\ SameValue(normalizeTx(raw), e.value)

\* C18 amended: every reported entry is an entry of the table whose value
\* equals the normalized input (chain and kind may differ).
ThmC18 ==
  Checked =>
    \A j \in 1..Len(result.matches) :
      /\ result.matches[j].input = normalizeTx(raw)
      /\ result.matches[j].entry \in 1..Len(table)
      /\ SameValue(normalizeTx(raw), table[result.matches[j].entry].value)

\* a reported entry filed under another chain than the input's
WitC18 ==
  /\ Checked
  /\ \E j \in 1..Len(result.matches) :
       table[result.matches[j].entry].chain # detectChain(raw)

TimesMatched(r, i) ==
  Cardinality({ j \in 1..Len(r.matches) : r.matches[j].entry = i })

\* C19: for a classified input, every entry whose value equals the
\* normalized input is in matches, whatever its chain and type, and no
\* entry is in matches more than once.
ThmC19 ==
  ( /\ Checked
    /\ detectChain(raw) # "unknown" /\ detectInputType(raw) # "unknown" )
    => \A i \in 1..Len(table) :
         /\ TimesMatched(result, i) <= 1
         /\ SameValue(normalizeTx(raw), table[i].value)
              => TimesMatched(result, i) = 1

\* an entry caught by the first test next to one caught only by the second
WitC19 ==
  /\ Checked
  /\ Len(result.matches) = 2
  /\ \E i \in 1..Len(table) :
       /\ table[i].chain = detectChain(raw)
       /\ table[i].type = detectInputType(raw)
       /\ hasEntry(result.matches, i)
  /\ \E i \in 1..Len(table) :
       /\ table[i].chain # detectChain(raw)
       /\ hasEntry(result.matches, i)

\* the stored history: what getHistoryItems returns
StoredItems == getHistoryItems(lsHistory, lsVersion).items

\* C20: after any sequence of addToHistory, updateContaminationStatus,
\* removeFromHistory and clearHistory calls from empty storage, the stored
\* history holds at most 20 entries.
CexC20 == Len(StoredItems) <= 20

\* the values of a list of items, in order
Values(items) == [i \in 1..Len(items) |-> items[i].value]

\* the value is one of the items' values
Holds(items, v) == \E i \in 1..Len(items) : items[i].value = v

\* C21: after any sequence of addToHistory, updateContaminationStatus,
\* removeFromHistory and clearHistory calls from empty storage, no two
\* stored history items have the same value.
ThmC21 ==
  \A i, j \in 1..Len(StoredItems) :
    StoredItems[i].value = StoredItems[j].value => i = j

\* a value that was stored already has been added again
WitC21 ==
  /\ lastCall.op = "addToHistory"
  /\ Len(lastCall.before) >= 2
  /\ Holds(lastCall.before, trim(lastCall.value))
  /\ Len(StoredItems) = Len(lastCall.before)

\* the list without its first element, when it has one
Rest(seq) == IF seq = <<>> THEN <<>> ELSE Tail(seq)

\* short is what is left of long when elements are cut off its end
IsPrefix(short, long) ==
  /\ Len(short) <= Len(long)
  /\ short = SubSeq(long, 1, Len(short))

\* C22: after addToHistory(v) with a non-blank v the trimmed v is the first
\* item and the items stored before, v apart, follow in the order they had;
\* addToHistory of an empty or whitespace-only value leaves the stored
\* history as it was.
ThmC22 ==
  lastCall.op = "addToHistory" =>
    LET v == trim(lastCall.value)
    IN  IF v = <<>>
        THEN StoredItems = lastCall.before
        ELSE /\ StoredItems # <<>>
             /\ Head(StoredItems).value = v
             /\ ~Holds(Rest(StoredItems), v)
             /\ IsPrefix(Rest(StoredItems), filterItems(lastCall.before, v))
             /\ \/ Len(StoredItems) = MAX_HISTORY_ITEMS
                \/ Rest(StoredItems) = filterItems(lastCall.before, v)

\* a value stored behind another one has been added again, with blanks
\* around it, and has moved to the front
WitC22 ==
  /\ lastCall.op = "addToHistory"
  /\ lastCall.value # trim(lastCall.value)
  /\ Len(lastCall.before) >= 2
  /\ lastCall.before[2].value = trim(lastCall.value)
  /\ StoredItems[1].value = trim(lastCall.value)
  /\ StoredItems[2] = lastCall.before[1]

\* C25: normalizeTx is idempotent: normalizing a normalized value again
\* gives the same value, so does the normalizeValue of the blacklist lookup.
ThmC25 ==
  pc # "start" =>
    /\ normalizeTx(normalized) = normalized
    /\ normalizeValue(normalized) = normalized

\* an input that normalization both trimmed and lower-cased
WitC25 ==
  /\ pc # "start"
  /\ trim(raw) # raw
  /\ normalized # trim(raw)
  /\ startsWith(normalized, Prefix0x)

\* one of the address validators accepts the string
IsAddress(s) == isEvmAddress(s) \/ isBitcoinAddress(s) \/ isSolanaAddress(s)

\* one of the hash shapes of detectChain accepts the string
IsHash(s) == detectChain(s) # "unknown"

\* C26: no normalized input has both an address shape and a hash shape, so
\* trying the address shapes first never changes the chain that is found.
ThmC26 ==
  (pc = "classified" /\ normalizeTx(raw) = raw) =>
    /\ ~ (addrChain # "unknown" /\ IsHash(raw))
    /\ ~ (IsAddress(raw) /\ IsHash(raw))
    /\ IsHash(raw) =>
         (IF addrChain # "unknown" THEN addrChain ELSE detectChain(raw))
           = detectChain(raw)

\* a normalized input of the Solana signature shape, which no address
\* validator accepts
WitC26 ==
  /\ pc = "classified"
  /\ normalizeTx(raw) = raw
  /\ detectChain(raw) = "solana"
  /\ addrChain = "unknown"

\* the storage holds the v1 data as v2 items, under version 2
MigratedStorage ==
  /\ lsVersion = "2"
  /\ lsHistory.set
  /\ Len(lsHistory.array) = Len(v1Array)
  /\ \A i \in 1..Len(v1Array) : lsHistory.array[i] = HistoryItem(v1Array[i], NULL)

\* C24: reading history stored in the v1 format migrates it: getHistoryItems
\* returns one item per stored string, with the same values in the same
\* order and no contamination status, storage then holds the v2 format
\* under version 2, and every later getHistory returns the same values.
ThmC24 ==
  /\ lastCall.op = "getHistoryItems" =>
       /\ Len(lastCall.returned) = Len(v1Array)
       /\ \A i \in 1..Len(v1Array) :
            lastCall.returned[i] = HistoryItem(v1Array[i], NULL)
       /\ MigratedStorage
  /\ lastCall.op = "getHistory" =>
       /\ lastCall.returned = v1Array
       /\ MigratedStorage

\* a getHistory call made after the migration of three v1 strings
WitC24 ==
  /\ lastCall.op = "getHistory"
  /\ Len(v1Array) = 3
  /\ lastCall.before = lsHistory.array
  /\ lastCall.returned = v1Array

\* the body has no input, or one that is not a string, or one that is empty
\* or longer than 200 characters once trimmed
IsBadBody(b) ==
  \/ b.json # "object"
  \/ b.type # "string"
  \/ Len(trim(b.str)) = 0
  \/ Len(trim(b.str)) > 200

\* C23: a body whose input is missing, not a string, empty after trimming or
\* longer than 200 characters after trimming gets a 400 response and
\* checkContamination is not called; every other body gets a normal
\* response whose status is clean, flagged or unknown.
CexC23 ==
  pc = "responded" =>
    IF IsBadBody(body)
    THEN response.code = 400 /\ ~response.called
    ELSE /\ response.code = 200
         /\ response.status \in {"clean", "flagged", "unknown"}

\* the result the route gives for the input on display
ResultOfCurrent == checkContamination(page.currentTx, table)

\* C27: whenever no contamination request is in flight, the status and the
\* matches on display are the result of the check of the input on display,
\* and no result is on display when no input is.
CexC27 ==
  inflight = {} =>
    /\ page.currentTx = <<>> => page.contaminationStatus = "idle"
    /\ ( /\ page.currentTx # <<>>
         /\ page.contaminationStatus \in {"clean", "flagged", "unknown"} )
       => /\ page.contaminationStatus = ResultOfCurrent.status
          /\ page.contaminationMatches = ResultOfCurrent.matches

\* a request has completed in this step
Completes == inflight' # inflight /\ inflight' \subseteq inflight

\* C28: a check that the page has started leaves the checking state: when a
\* request completes the status becomes clean, flagged or unknown, or idle
\* with an error message; with no request pending the status is never
\* checking; and a checking status always comes to an end.
ThmC28 ==
  /\ [](inflight = {} => page.contaminationStatus # "checking")
  /\ [][Completes =>
          \/ page'.contaminationStatus \in {"clean", "flagged", "unknown"}
          \/ /\ page'.contaminationStatus = "idle"
             /\ page'.contaminationError # NULL]_vars
  /\ (page.contaminationStatus = "checking")
       ~> (page.contaminationStatus # "checking")

\* the last pending request has failed: the page is idle and shows the error
WitC28 ==
  /\ started = MaxRequests
  /\ inflight = {}
  /\ page.contaminationStatus = "idle"
  /\ page.contaminationError # NULL
  /\ page.currentTx # <<>>

\* C29: every value the page has put into history has a known chain, and
\* the chain on display is the chain of the input on display, and known.
ThmC29 ==
  /\ \A i \in 1..Len(StoredItems) :
       detectChain(StoredItems[i].value) # "unknown"
  /\ \A i \in 1..Len(page.history) :
       detectChain(page.history[i]) # "unknown"
  /\ page.currentTx # <<>> =>
       /\ page.currentChain = detectChain(page.currentTx)
       /\ page.currentChain # "unknown"

\* two values are stored, the older one was brought back to the front and
\* is on display, after an invalid input had been refused in between
WitC29 ==
  /\ Len(StoredItems) = 2
  /\ started = 3
  /\ page.currentTx = StoredItems[1].value
  /\ page.currentTx = TxEvm
  /\ page.currentChain = "evm"
  /\ page.history = Values(StoredItems)

====
